---- MODULE Spec2Model ----
(***************************************************************************)
(* Model of the BODHI query backend (API_2_QUERY/backend):                  *)
(*   agent_responses.py  convert_step_dict_to_list, clean_json_string,      *)
(*                       the response models and validate_llm_response      *)
(*   chat_logger.py      the chat / session store wrappers                  *)
(*   mcp_agent.py        query_llm_with_context, one process per request    *)
(*                                                                          *)
(* Text is modelled as a sequence of characters (one-character strings);    *)
(* a JSON value is a record [k, s, l, d] tagged by its kind k.              *)
(***************************************************************************)
EXTENDS Integers, Sequences, FiniteSets, TLC

\* ------------------------------------------------------------------ bounds
\* Longest list / mapping drawn as a step collection.
MaxSteps == 3
\* Longest list drawn as a field of a response object.
MaxList == 2
\* Most documents held by the embedding store.
MaxDocs == 3
\* Largest top_k asked of get_similar_chunks.
MaxTopK == 2

\* ------------------------------------------------------------- characters
\* "^2" stands for the superscript-two character: str.isdigit() accepts it,
\* int() rejects it.
DecimalDigits == {"0", "1", "2", "9"}

IsDigit(c) == c \in DecimalDigits \cup {"^2"}

IsSpace(c) == c \in {" ", "\n"}

DigitVal(c) == CASE c = "0" -> 0 [] c = "1" -> 1 [] c = "2" -> 2 [] c = "9" -> 9

\* Unicode code points, the order Python compares str by.
Ord(c) ==
  CASE c = "\n" -> 10 [] c = " " -> 32
    [] c = "0" -> 48 [] c = "1" -> 49 [] c = "2" -> 50 [] c = "9" -> 57
    [] c = "E" -> 69 [] c = "a" -> 97 [] c = "s" -> 115 [] c = "z" -> 122
    [] c = "^2" -> 178

\* a < b for two str values (lexicographic by code point, a proper prefix first).
RECURSIVE StrLess(_, _)
StrLess(a, b) ==
  IF b = <<>> THEN FALSE
  ELSE IF a = <<>> THEN TRUE
  ELSE IF Ord(Head(a)) # Ord(Head(b)) THEN Ord(Head(a)) < Ord(Head(b))
  ELSE StrLess(Tail(a), Tail(b))

\* str.strip(): leading and trailing whitespace removed.
RECURSIVE LStrip(_)
LStrip(s) == IF s # <<>> /\ IsSpace(Head(s)) THEN LStrip(Tail(s)) ELSE s

RECURSIVE RStrip(_)
RStrip(s) ==
  IF s # <<>> /\ IsSpace(s[Len(s)]) THEN RStrip(SubSeq(s, 1, Len(s) - 1)) ELSE s

Strip(s) == RStrip(LStrip(s))

\* ------------------------------------------------------------ JSON values
\* k: "absent" (key not in the object), "null", "str", "num", "list"
\* (a list of strings), "numlist" (a list holding a non-string), "dict".
\* s: the characters of a str; l: the elements of a list; d: the entries of
\* a dict in insertion order, each [key, val].
Absent == [k |-> "absent", s |-> <<>>, l |-> <<>>, d |-> <<>>]
Null == [k |-> "null", s |-> <<>>, l |-> <<>>, d |-> <<>>]
Num == [k |-> "num", s |-> <<>>, l |-> <<>>, d |-> <<>>]
NumList == [k |-> "numlist", s |-> <<>>, l |-> <<>>, d |-> <<>>]
Str(s) == [k |-> "str", s |-> s, l |-> <<>>, d |-> <<>>]
List(l) == [k |-> "list", s |-> <<>>, l |-> l, d |-> <<>>]
Dict(d) == [k |-> "dict", s |-> <<>>, l |-> <<>>, d |-> d]

\* ------------------------------------------- convert_step_dict_to_list
\* ''.join(filter(str.isdigit, str(x)))
FilterDigits(key) == SelectSeq(key, IsDigit)

\* int(text) succeeds on a non-empty run of decimal digits.
IntParses(text) == text # <<>> /\ \A i \in 1..Len(text) : text[i] \in DecimalDigits

RECURSIVE IntOf(_)
IntOf(text) ==
  IF text = <<>> THEN 0
  ELSE 10 * IntOf(SubSeq(text, 1, Len(text) - 1)) + DigitVal(text[Len(text)])

\* The lambda of the first sort raises when int() rejects the digits.
SortKeyRaises(key) == FilterDigits(key) # <<>> /\ ~IntParses(FilterDigits(key))

\* key=lambda x: int(''.join(filter(str.isdigit, str(x))) or 0)
SortKey(key) == IF FilterDigits(key) = <<>> THEN 0 ELSE IntOf(FilterDigits(key))

\* The comparison a sort makes: order is "numeric" (by SortKey) or "str".
EntryLess(order, e1, e2) ==
  IF order = "numeric" THEN SortKey(e1.key) < SortKey(e2.key)
  ELSE StrLess(e1.key, e2.key)

\* sorted(): a stable sort; e goes after every element that is not greater.
RECURSIVE InsertStable(_, _, _)
InsertStable(order, e, sorted) ==
  IF sorted = <<>> THEN <<e>>
  ELSE IF EntryLess(order, e, Head(sorted)) THEN <<e>> \o sorted
  ELSE <<Head(sorted)>> \o InsertStable(order, e, Tail(sorted))

RECURSIVE SortedStable(_, _)
SortedStable(order, entries) ==
  IF entries = <<>> THEN <<>>
  ELSE InsertStable(order, entries[Len(entries)],
                    SortedStable(order, SubSeq(entries, 1, Len(entries) - 1)))

Values(entries) == [i \in 1..Len(entries) |-> entries[i].val]

SortedLexicographic(entries) == Values(SortedStable("str", entries))

\* The first sort with key=str in place of the numeral.
SortedNumericByText(entries) == Values(SortedStable("str", entries))

SortedNumeric(entries) == Values(SortedStable("numeric", entries))

\* The try block with a key function that lacks the "or 0": int('') raises
\* as well, so a key without digits sends the sort to the except branch.
TrySortNumericNoDefault(entries) ==
  IF \E i \in 1..Len(entries) : ~IntParses(FilterDigits(entries[i].key))
  THEN [raised |-> TRUE, out |-> <<>>]
  ELSE [raised |-> FALSE, out |-> SortedNumeric(entries)]

\* The try block: the numeric sort, or the exception of its key function.
TrySortNumeric(entries) ==
  IF \E i \in 1..Len(entries) : SortKeyRaises(entries[i].key)
  THEN [raised |-> TRUE, out |-> <<>>]
  ELSE [raised |-> FALSE, out |-> SortedNumeric(entries)]

convert_step_dict_to_list(step_data) ==
  IF step_data.k = "dict"
  THEN LET try == TrySortNumeric(step_data.d)
       IN IF try.raised THEN List(SortedLexicographic(step_data.d)) ELSE List(try.out)
  ELSE step_data

\* ------------------------------------------------------- clean_json_string
\* A raw text is [lead, body, trail]: what precedes the payload ("" nothing,
\* "fence" or "fence_json" an opening code fence without or with the json
\* tag, "prose_fence" a sentence and then a fence), the payload, and what
\* follows it ("" or "fence", a closing code fence).
\* The first re.sub is anchored with ^: only a fence at the very start goes.
StripLeadingFence(raw) ==
  [raw EXCEPT !.lead = IF raw.lead \in {"fence", "fence_json"} THEN "" ELSE raw.lead]

\* The second re.sub removes a closing fence at the end.
StripTrailingFence(raw) == [raw EXCEPT !.trail = ""]

clean_json_string(raw) == StripTrailingFence(StripLeadingFence(raw))

\* json.loads: the payload's value when the text is exactly one JSON document.
JsonParses(text) == text.lead = "" /\ text.trail = "" /\ text.body.kind = "json"

\* ---------------------------------------------------------- response models
NO_RESULT_MESSAGE == <<"No", "relevant", "document", "found">>

NoResultFields == {"message"}

FaultDiagnosisFields ==
  [str |-> "issue_identified", req |-> <<"likely_causes", "recommended_actions">>,
   opt |-> "precautionary_notes"]

OperationalGuidanceFields ==
  [str |-> "task", req |-> <<"tools_needed", "step_by_step_procedure">>,
   opt |-> "safety_checklist"]

FieldSet(model) == {model.str, model.req[1], model.req[2], model.opt}

AllFields ==
  NoResultFields \cup FieldSet(FaultDiagnosisFields) \cup FieldSet(OperationalGuidanceFields)

\* model_map of validate_llm_response
model_map ==
  [fault_diagnosis |-> FaultDiagnosisFields, operational_guidance |-> OperationalGuidanceFields]

\* str.lower() on the labels drawn.
Lower(label) ==
  CASE label = "FAULT_DIAGNOSIS" -> "fault_diagnosis"
    [] label = "Operational_Guidance" -> "operational_guidance"
    [] OTHER -> label

\* The validator without the strip(): only the empty text is rejected.
StrFieldFailsLax(v) == v.k # "str" \/ v.s = <<>>

\* issue_not_empty / task_not_empty, after the str type check.
StrFieldFails(v) == v.k # "str" \/ v.s = <<>> \/ Strip(v.s) = <<>>

\* Union[List[str], dict] and then list_not_empty; a missing key fails too.
ReqFieldFails(v) ==
  \/ v.k \notin {"list", "dict"}
  \/ v.k = "list" /\ v.l = <<>>
  \/ v.k = "dict" /\ v.d = <<>>

\* Optional[Union[List[str], dict]] = None: no validator.
OptFieldFails(v) == v.k \notin {"absent", "null", "list", "dict"}

\* The fields pydantic reports when model(**obj) raises ValidationError.
FieldErrors(model, obj) ==
  {f \in FieldSet(model) :
     \/ f = model.str /\ StrFieldFails(obj[f])
     \/ f \in {model.req[1], model.req[2]} /\ ReqFieldFails(obj[f])
     \/ f = model.opt /\ OptFieldFails(obj[f])}

\* Python truthiness of a field value: None, [] and {} are falsy.
Truthy(v) ==
  \/ v.k \in {"num", "numlist"}
  \/ v.k = "str" /\ v.s # <<>>
  \/ v.k = "list" /\ v.l # <<>>
  \/ v.k = "dict" /\ v.d # <<>>

\* The field as the constructed model holds it: a missing optional is None.
Parsed(model, obj) ==
  [f \in FieldSet(model) |-> IF obj[f].k = "absent" THEN Null ELSE obj[f]]

\* post_process followed by model_dump.
post_process(model, parsed) ==
  [f \in FieldSet(model) |->
     IF f \in {model.req[1], model.req[2]} THEN convert_step_dict_to_list(parsed[f])
     ELSE IF f = model.opt /\ Truthy(parsed[f]) THEN convert_step_dict_to_list(parsed[f])
     ELSE parsed[f]]

\* NoResultResponse: message is a str matching ^No relevant document found$.
NoResultMatches(obj) == obj["message"].k = "str" /\ obj["message"].s = NO_RESULT_MESSAGE

\* ---------------------------------------------------- validate_llm_response
Ok(variant, dump) == [kind |-> "ok", why |-> variant, fields |-> {}, dump |-> dump]

Raise(kind, why, fields) == [kind |-> kind, why |-> why, fields |-> fields, dump |-> <<>>]

\* model(**response_data) on a value that is no mapping.
NotMapping(value) == Raise("TypeError", "not_mapping", {})

\* Case 2 of validate_llm_response, once the data is parsed.
IntentCase(value, intent_type) ==
  LET name == Lower(intent_type) IN
  IF name \notin DOMAIN model_map THEN Raise("ValueError", "unknown_intent", {})
  ELSE IF value.t # "object" THEN NotMapping(value)
  ELSE LET model == model_map[name]
           errs == FieldErrors(model, value.o)
       IN IF errs # {} THEN Raise("ValueError", "validation", errs)
          ELSE Ok(name, post_process(model, Parsed(model, value.o)))

\* The two cases with the intent looked up before the message key is tested.
ParsedCaseIntentFirst(value, intent_type) ==
  IF Lower(intent_type) \notin DOMAIN model_map
  THEN Raise("ValueError", "unknown_intent", {})
  ELSE IF value.t = "object" /\ value.o["message"].k # "absent"
  THEN IF NoResultMatches(value.o)
       THEN Ok("no_result", [f \in NoResultFields |-> value.o[f]])
       ELSE Raise("ValueError", "validation", {"message"})
  ELSE IntentCase(value, intent_type)

ParsedCase(value, intent_type) ==
  IF value.t = "object" /\ value.o["message"].k # "absent"
  THEN IF NoResultMatches(value.o)
       THEN Ok("no_result", [f \in NoResultFields |-> value.o[f]])
       ELSE Raise("ValueError", "validation", {"message"})
  ELSE IntentCase(value, intent_type)

validate_llm_response(response_data, intent_type) ==
  IF response_data.py = "str"
  THEN LET text == clean_json_string(response_data)
       IN IF JsonParses(text) THEN ParsedCase(text.body.val, intent_type)
          ELSE Raise("ValueError", "json", {})
  ELSE ParsedCase(response_data.body.val, intent_type)

\* ------------------------------------------------------------------- state
VARIABLES
  step_data,           \* SpecConvert: the argument of convert_step_dict_to_list
  converted,           \* SpecConvert: its return value, NotRun before the call
  response_data,       \* SpecValidate: the first argument of validate_llm_response
  intent_type,         \* SpecValidate: its second argument
  validated,           \* SpecValidate: its outcome, NotRun before the call
  embedding_collection, \* SpecRetrieve: the documents of the embedding store, in find() order
  machine_id,          \* SpecRetrieve: the scope argument of get_similar_chunks
  top_k,               \* SpecRetrieve: its top_k argument
  chunks,              \* SpecRetrieve: its outcome, NotRun before the call
  chat_collection,     \* tb_session_chats: chat id -> document
  session_collection,  \* tb_sessions: session id -> document
  req,                 \* per request: the locals of query_llm_with_context
  trace                \* per request: the calls it has made, in order

vars ==
  <<step_data, converted, response_data, intent_type, validated,
    embedding_collection, machine_id, top_k, chunks,
    chat_collection, session_collection, req, trace>>

retrieveVars == <<embedding_collection, machine_id, top_k, chunks>>

pureVars == <<step_data, converted, response_data, intent_type, validated, retrieveVars>>

storeVars == <<chat_collection, session_collection, req, trace>>

NotRun == [kind |-> "not_run"]

\* ------------------------------------------------------ drawn input values
\* Step keys: s1 s2 s10 s01 (numeral 1 again) 1s2 (digits 1,2) z a (no
\* digit) s^2 (a digit int() rejects).
StepKeys ==
  { <<"s", "1">>, <<"s", "2">>, <<"s", "1", "0">>, <<"s", "0", "1">>,
    <<"1", "s", "2">>, <<"z">>, <<"a">>, <<"s", "^2">> }

StepTexts == {"A", "B", "J"}

\* Sequences of length n of distinct elements of S.
RECURSIVE InjectiveSeqs(_, _)
InjectiveSeqs(S, n) ==
  IF n = 0 THEN {<<>>}
  ELSE UNION {{Append(q, x) : x \in S \ {q[i] : i \in 1..Len(q)}} : q \in InjectiveSeqs(S, n - 1)}

SeqsUpTo(S, n) == UNION {[1..m -> S] : m \in 0..n}

\* Field values of the response objects drawn for validate_llm_response.
FieldTexts == {"A", ""}

StrVals == {Absent, Num, Str(<<>>), Str(<<" ", "\n">>), Str(<<"E", "9">>)}

ListVals == {List(l) : l \in SeqsUpTo(FieldTexts, MaxList)}

Entry(key, val) == [key |-> key, val |-> val]

DictVals ==
  { Dict(<<>>),
    Dict(<<Entry(<<"s", "2">>, "B"), Entry(<<"s", "1", "0">>, "J"), Entry(<<"s", "1">>, "A")>>),
    Dict(<<Entry(<<"s", "1">>, "")>>) }

ReqVals == {Absent, Null, NumList} \cup ListVals \cup DictVals

OptVals ==
  { Absent, Null, NumList, List(<<>>), List(<<"A">>), List(<<"">>), Dict(<<>>),
    Dict(<<Entry(<<"z">>, "A"), Entry(<<"s", "1">>, "B")>>) }

MessageVals ==
  { Str(NO_RESULT_MESSAGE), Str(<<"Something", "else">>),
    Str(<<"no", "relevant", "document", "found">>),
    Str(NO_RESULT_MESSAGE \o <<"\n">>), Null }

\* A JSON object: every key of AllFields, Absent when the object lacks it.
EmptyObject == [f \in AllFields |-> Absent]

ObjectOf(model, sv, r1, r2, ov) ==
  [f \in AllFields |->
     IF f = model.str THEN sv
     ELSE IF f = model.req[1] THEN r1
     ELSE IF f = model.req[2] THEN r2
     ELSE IF f = model.opt THEN ov
     ELSE Absent]

Models == {FaultDiagnosisFields, OperationalGuidanceFields}

GoodFault ==
  ObjectOf(FaultDiagnosisFields, Str(<<"E", "9">>), List(<<"A">>),
           Dict(<<Entry(<<"s", "2">>, "B"), Entry(<<"s", "1">>, "A")>>), Absent)

BlankFault == [GoodFault EXCEPT !["issue_identified"] = Str(<<>>)]

GoodGuidance ==
  ObjectOf(OperationalGuidanceFields, Str(<<"E", "9">>), List(<<"A">>), List(<<"A", "A">>),
           List(<<"A">>))

MessageObjects ==
  {[o EXCEPT !["message"] = mv] : o \in {EmptyObject, GoodFault, BlankFault}, mv \in MessageVals}

Object(o) == [t |-> "object", o |-> o]

NonObjects == {[t |-> k, o |-> EmptyObject] : k \in {"list", "str", "num", "null"}}

Json(value) == [kind |-> "json", val |-> value]

NotJson == {[kind |-> k, val |-> Object(EmptyObject)] : k \in {"empty", "garbage"}}

RawText(lead, body, trail) == [py |-> "str", lead |-> lead, body |-> body, trail |-> trail]

Leads == {"", "fence", "fence_json", "prose_fence"}

Trails == {"", "fence"}

\* The payloads drawn inside every combination of fences.
WrappedBodies ==
  NotJson \cup {Json(v) : v \in NonObjects}
    \cup {Json(Object(o)) : o \in {GoodFault, BlankFault, GoodGuidance, EmptyObject}}
    \cup {Json(Object([EmptyObject EXCEPT !["message"] = mv])) : mv \in MessageVals}

\* Every payload in every combination of fences.
WrappedTexts == {RawText(ld, b, tr) : ld \in Leads, b \in WrappedBodies, tr \in Trails}

\* A dict handed over already parsed (response_data: Union[dict, str]).
ParsedDicts ==
  {[py |-> "dict", lead |-> "", body |-> Json(Object(o)), trail |-> ""] :
     o \in MessageObjects \cup {GoodFault, BlankFault, GoodGuidance, EmptyObject}}

IntentTypes == {"fault_diagnosis", "operational_guidance", "FAULT_DIAGNOSIS", "chitchat"}

\* ------------------------------------------------------------- idle values
IdleRetrieve ==
  /\ embedding_collection = <<>> /\ machine_id = "" /\ top_k = 0 /\ chunks = NotRun

IdlePure ==
  /\ step_data = NotRun /\ converted = NotRun
  /\ response_data = NotRun /\ intent_type = "" /\ validated = NotRun
  /\ IdleRetrieve

IdleStore ==
  /\ chat_collection = <<>> /\ session_collection = <<>> /\ req = <<>> /\ trace = <<>>

\* --------------------------------------------------------------- SpecConvert
\* convert_step_dict_to_list applied to every drawn step collection.
\* Every mapping of at most MaxSteps step keys in every insertion order,
\* every list of at most MaxSteps texts, and None.
InitConvert ==
  /\ \/ \E n \in 0..MaxSteps : \E ks \in [1..n -> StepKeys], vs \in [1..n -> StepTexts] :
          /\ \A i, j \in 1..n : ks[i] = ks[j] => i = j
          /\ step_data = Dict([i \in 1..n |-> Entry(ks[i], vs[i])])
     \/ \E n \in 0..MaxSteps : \E vs \in [1..n -> StepTexts] : step_data = List(vs)
     \/ step_data = Null
  /\ converted = NotRun
  /\ response_data = NotRun /\ intent_type = "" /\ validated = NotRun
  /\ IdleRetrieve
  /\ IdleStore

Convert ==
  /\ converted = NotRun
  /\ converted' = convert_step_dict_to_list(step_data)
  /\ UNCHANGED <<step_data, response_data, intent_type, validated, retrieveVars, storeVars>>

NextConvert == Convert

SpecConvert == InitConvert /\ [][NextConvert]_vars

\* -------------------------------------------------------------- SpecValidate
\* validate_llm_response applied to every drawn response and intent.
\* The JSON text of every object of either model's shape, the wrapped
\* texts and the dicts handed over parsed.
InitValidate ==
  /\ \/ \E m \in Models, sv \in StrVals, r1 \in ReqVals, r2 \in ReqVals, ov \in OptVals :
          response_data = RawText("", Json(Object(ObjectOf(m, sv, r1, r2, ov))), "")
     \/ \E o \in MessageObjects : response_data = RawText("", Json(Object(o)), "")
     \/ response_data \in WrappedTexts
     \/ response_data \in ParsedDicts
  /\ intent_type \in IntentTypes
  /\ validated = NotRun
  /\ step_data = NotRun /\ converted = NotRun
  /\ IdleRetrieve
  /\ IdleStore

Validate ==
  /\ validated = NotRun
  /\ validated' = validate_llm_response(response_data, intent_type)
  /\ UNCHANGED <<step_data, converted, response_data, intent_type, retrieveVars, storeVars>>

NextValidate == Validate

SpecValidate == InitValidate /\ [][NextValidate]_vars

\* ------------------------------------------------------------- embedder.py
\* A stored document is [machine_id, text, embedding]; NoField in place of
\* text or embedding: the document has no such key.
NoField == "no_field"

MachineIds == {"m1", "m2"}

\* The embeddings drawn: the query's own vector, two different vectors at
\* the same angle to it, on either side.
Embeddings == {"e_query", "e_left", "e_right"}

\* cosine_similarity(query_embedding, embedding), in tenths.
cosine_similarity(embedding) ==
  CASE embedding = "e_query" -> 10 [] embedding = "e_left" -> 7 [] embedding = "e_right" -> 7

\* The text of the document stored at position i.
DocText(i) == <<"chunk", i>>

Doc(machine, text, embedding) == [machine_id |-> machine, text |-> text, embedding |-> embedding]

\* embedding_collection.find({"machine_id": machine_id}, ...), in store order.
Find(collection, machine) == SelectSeq(collection, LAMBDA doc : doc.machine_id = machine)

\* The for loop: a document lacking either key is skipped, the others give
\* (score, text, embedding).
RECURSIVE Similarities(_)
Similarities(docs) ==
  IF docs = <<>> THEN <<>>
  ELSE LET doc == docs[Len(docs)]
           before == Similarities(SubSeq(docs, 1, Len(docs) - 1))
       IN IF doc.embedding = NoField \/ doc.text = NoField THEN before
          ELSE Append(before, <<cosine_similarity(doc.embedding), doc.text, doc.embedding>>)

\* list.sort is stable: e goes after every element that does not come later.
RECURSIVE InsertByScore(_, _, _)
InsertByScore(descending, e, sorted) ==
  IF sorted = <<>> THEN <<e>>
  ELSE IF (IF descending THEN Head(sorted)[1] < e[1] ELSE e[1] < Head(sorted)[1])
  THEN <<e>> \o sorted
  ELSE <<Head(sorted)>> \o InsertByScore(descending, e, Tail(sorted))

RECURSIVE SortedByScore(_, _)
SortedByScore(descending, similarities) ==
  IF similarities = <<>> THEN <<>>
  ELSE InsertByScore(descending, similarities[Len(similarities)],
                     SortedByScore(descending, SubSeq(similarities, 1, Len(similarities) - 1)))

Reversed(q) == [i \in 1..Len(q) |-> q[Len(q) + 1 - i]]

\* An ascending sort followed by reverse(): equal scores end in reverse order.
SortedAscendingThenReversed(similarities) == Reversed(SortedByScore(FALSE, similarities))

\* similarities.sort(key=lambda x: x[0], reverse=True)
SortedDescending(similarities) == SortedByScore(TRUE, similarities)

\* similarities[:top_k], for top_k >= 0
Slice(q, k) == SubSeq(q, 1, IF k < Len(q) THEN k ELSE Len(q))

Chunks(out) == [kind |-> "ok", out |-> out]

\* get_similar_chunks once embed_text has returned the query embedding.
get_similar_chunks(collection, machine, k) ==
  LET docs == Find(collection, machine)
  IN IF docs = <<>> THEN Chunks(<<>>)
     ELSE Chunks(Slice(SortedDescending(Similarities(docs)), k))

\* -------------------------------------------------------------- SpecRetrieve
\* get_similar_chunks over every store of at most MaxDocs documents, of two
\* machines, each with or without its text and its embedding.
InitRetrieve ==
  /\ \E n \in 0..MaxDocs :
       \E ms \in [1..n -> MachineIds], ts \in [1..n -> BOOLEAN],
          es \in [1..n -> Embeddings \cup {NoField}] :
         embedding_collection =
           [i \in 1..n |-> Doc(ms[i], IF ts[i] THEN DocText(i) ELSE NoField, es[i])]
  /\ machine_id = "m1"
  /\ top_k \in 0..MaxTopK
  /\ chunks = NotRun
  /\ step_data = NotRun /\ converted = NotRun
  /\ response_data = NotRun /\ intent_type = "" /\ validated = NotRun
  /\ IdleStore

\* embed_text returns, and the rest of get_similar_chunks runs.
Retrieve ==
  /\ chunks = NotRun
  /\ chunks' = get_similar_chunks(embedding_collection, machine_id, top_k)
  /\ UNCHANGED <<step_data, converted, response_data, intent_type, validated,
                 embedding_collection, machine_id, top_k, storeVars>>

\* embed_text raises: the embedding service cannot be reached.
EmbedTextFails ==
  /\ chunks = NotRun
  /\ chunks' = [kind |-> "EmbeddingUnavailable", out |-> <<>>]
  /\ UNCHANGED <<step_data, converted, response_data, intent_type, validated,
                 embedding_collection, machine_id, top_k, storeVars>>

NextRetrieve == Retrieve \/ EmbedTextFails

SpecRetrieve == InitRetrieve /\ [][NextRetrieve]_vars

\* ---------------------------------------------------------- chat_logger.py
\* A document of tb_session_chats / tb_sessions; exists = FALSE: no document
\* has this id.
NoAnswer == <<>>

ChatDoc(session, answer, modifiedOn) ==
  [exists |-> TRUE, session_id |-> session, answer |-> answer, modifiedOn |-> modifiedOn]

NoChatDoc == [exists |-> FALSE, session_id |-> "", answer |-> NoAnswer, modifiedOn |-> ""]

SessionDoc(summarization, modifiedOn) ==
  [exists |-> TRUE, summarization |-> summarization, modifiedOn |-> modifiedOn]

NoSessionDoc == [exists |-> FALSE, summarization |-> {}, modifiedOn |-> ""]

\* update_one with upsert: a document is inserted when none matches.
UpsertChatMessage(chats, id, answer) ==
  [chats EXCEPT ![id] = [@ EXCEPT !.exists = TRUE, !.answer = answer, !.modifiedOn = "now"]]

\* update_chat_message: update_one without upsert; no match, no change.
update_chat_message(chats, id, answer) ==
  IF chats[id].exists
  THEN [chats EXCEPT ![id] = [@ EXCEPT !.answer = answer, !.modifiedOn = "now"]]
  ELSE chats

\* get_session_summary: "" (no turn summarised) when the session is missing.
get_session_summary(sessions, id) ==
  IF sessions[id].exists THEN sessions[id].summarization ELSE {}

\* An update that adds to the stored summary ($addToSet) in place of $set.
MergeSessionSummary(sessions, id, updated_summary) ==
  IF sessions[id].exists
  THEN [sessions EXCEPT ![id] =
          [@ EXCEPT !.summarization = @ \cup updated_summary, !.modifiedOn = "now"]]
  ELSE sessions

\* update_one with upsert=True: a session is inserted when none matches.
UpsertSessionSummary(sessions, id, updated_summary) ==
  [sessions EXCEPT ![id] =
     [@ EXCEPT !.exists = TRUE, !.summarization = updated_summary, !.modifiedOn = "now"]]

\* update_session_summary: update_one(..., upsert=False).
update_session_summary(sessions, id, updated_summary) ==
  IF sessions[id].exists
  THEN [sessions EXCEPT ![id] = [@ EXCEPT !.summarization = updated_summary, !.modifiedOn = "now"]]
  ELSE sessions

\* is_first_message: count_documents({"session_id": session_id}) == 1
is_first_message(chats, id) ==
  Cardinality({c \in DOMAIN chats : chats[c].exists /\ chats[c].session_id = id}) = 1

\* ------------------------------------------------------------ mcp_agent.py
AGENTS == {"fault_diagnosis", "operational_guidance"}

\* str.upper() on the relevance outputs drawn.
Upper(text) == IF text = "irrelevant_query" THEN "IRRELEVANT_QUERY" ELSE text

\* build_vector_search_input, given what call_llm returned: None for the
\* sentinel, the text otherwise.
build_vector_search_input(vector_text) ==
  IF Upper(vector_text) = "IRRELEVANT_QUERY" THEN "None" ELSE vector_text

\* A test for None alone ("is None"): the empty text counts as a search text.
IsNone(text) == text = "None"

\* "if not vector_search_text": None and "" are falsy.
NotText(text) == text \in {"None", ""}

\* str.lower() on a text of words and whitespace characters.
LowerText(text) == [i \in 1..Len(text) |-> Lower(text[i])]

\* A classifier that looks for a known label anywhere in the output.
ClassifyBySubstring(content) ==
  LET found == {i \in 1..Len(content) : Lower(content[i]) \in AGENTS}
  IN IF found = {} THEN "unknown"
     ELSE Lower(content[CHOOSE i \in found : \A j \in found : i <= j])

\* classify_intent, given the message content the model produced: call_llm
\* strips it, classify_intent lower-cases and strips again.
classify_intent(content) ==
  LET label == Strip(LowerText(Strip(content)))
  IN IF Len(label) = 1 /\ label[1] \in AGENTS THEN label[1] ELSE "unknown"

IrrelevantAnswer ==
  [response_type |-> Str(<<"irrelevant_query">>),
   message |-> Str(<<"Hmm,", "that", "doesn't", "seem", "related", "to", "machine", "operation.">>)]

UnknownIntentAnswer ==
  [error |-> Str(<<"unknown_intent">>),
   message |-> Str(<<"Could", "not", "determine", "the", "right", "agent.">>)]

\* FaultDiagnosisResponse.empty_dict() / OperationalGuidanceResponse.empty_dict():
\* neither class defines empty_dict, nor does pydantic's BaseModel, so the
\* attribute lookup raises AttributeError inside the except block.
empty_dict(model) == Raise("AttributeError", "empty_dict", {})

\* The except ValueError block: the fallback answer, with the raw text.
Fallback(intent, reply_text) ==
  LET e == IF intent = "fault_diagnosis" THEN empty_dict(FaultDiagnosisFields)
           ELSE empty_dict(OperationalGuidanceFields)
  IN IF e.kind # "ok" THEN e
     ELSE Ok("fallback",
             [f \in DOMAIN e.dump \cup {"raw"} |->
                IF f = "raw" THEN Str(<<reply_text>>) ELSE e.dump[f]])

\* What the validation step of query_llm_with_context leaves: an answer, or
\* the exception that leaves the function.
ResolveAnswer(reply_text, intent) ==
  LET res == validate_llm_response(reply_text, intent)
  IN IF res.kind = "ValueError" THEN Fallback(intent, reply_text) ELSE res

\* The turns a summary text is derived from: the summary prompt's inputs.
IncrementalSummary(previous_summary, turn) == previous_summary \cup {turn}

FirstMessageSummary(turn) == {turn}

\* ------------------------------------------------------------ the requests
Requests == {"r1", "r2"}

SessionIds == {"s1", "s2"}

ChatIdOf == [r \in Requests |-> IF r = "r1" THEN "c1" ELSE "c2"]

ChatIds == {"c0", "c1", "c2"}

Queries ==
  { <<"How", "to", "turn", "on", "CNC", "machine?">>, <<"What", "is", "the", "weather?">> }

RelevanceOutputs == {"IRRELEVANT_QUERY", "irrelevant_query", "", "CNC spindle start-up"}

\* Message contents of the classification call: a label, a label in other
\* case inside whitespace, another word, and two labels at once.
LabelOutputs ==
  { <<"fault_diagnosis">>, <<" ", "Operational_Guidance", "\n">>, <<"troubleshooting">>,
    <<"fault_diagnosis", " ", "operational_guidance">> }

AgentReplies ==
  { RawText("", Json(Object(GoodFault)), ""),
    RawText("fence_json", Json(Object(GoodGuidance)), "fence"),
    RawText("", Json(Object([EmptyObject EXCEPT !["message"] = Str(NO_RESULT_MESSAGE)])), ""),
    RawText("", [kind |-> "garbage", val |-> Object(EmptyObject)], ""),
    RawText("", Json([t |-> "list", o |-> EmptyObject]), "") }

NewRequest(query, session, chat) ==
  [pc |-> "start", user_query |-> query, session_id |-> session, chat_id |-> chat,
   session_summary |-> {}, vector_search_text |-> "None", label |-> <<>>, intent |-> "",
   reply_text |-> NotRun, answer |-> NoAnswer, first_message |-> FALSE,
   updated_summary |-> {}, raised |-> ""]

Init ==
  /\ IdlePure
  /\ \E queries \in [Requests -> Queries], sessions \in [Requests -> SessionIds],
        placeholders \in SUBSET Requests, s2 \in BOOLEAN :
       /\ req = [r \in Requests |-> NewRequest(queries[r], sessions[r], ChatIdOf[r])]
       /\ chat_collection =
            [c \in ChatIds |->
               IF c = "c0" THEN ChatDoc("s1", UnknownIntentAnswer, "before")
               ELSE IF \E r \in placeholders : ChatIdOf[r] = c
               THEN ChatDoc(sessions[CHOOSE r \in Requests : ChatIdOf[r] = c], NoAnswer, "before")
               ELSE NoChatDoc]
       /\ session_collection =
            [s \in SessionIds |->
               IF s = "s1" THEN SessionDoc({"t0"}, "before")
               ELSE IF s2 THEN SessionDoc({}, "before") ELSE NoSessionDoc]
  /\ trace = [r \in Requests |-> <<>>]

Called(r, call) == trace' = [trace EXCEPT ![r] = Append(@, call)]

\* An exception leaves query_llm_with_context; ask_question answers HTTP 500.
Raised(r, exception) == [req[r] EXCEPT !.pc = "failed", !.raised = exception]

\* Step 1: session_summary = get_session_summary(session_id) or ""
GetSessionSummary(r) ==
  /\ req[r].pc = "start"
  /\ req' = [req EXCEPT ![r] =
       [@ EXCEPT !.pc = "relevance",
                 !.session_summary = get_session_summary(session_collection, req[r].session_id)]]
  /\ Called(r, "get_session_summary")
  /\ UNCHANGED <<pureVars, chat_collection, session_collection>>

\* Step 2: build_vector_search_input; call_llm returns a text or raises.
BuildVectorSearchInput(r) ==
  /\ req[r].pc = "relevance"
  /\ \/ \E vector_text \in RelevanceOutputs :
          LET text == build_vector_search_input(vector_text)
          IN req' = [req EXCEPT ![r] =
               IF NotText(text)
               THEN [@ EXCEPT !.pc = "irrelevant_save", !.vector_search_text = text,
                              !.answer = IrrelevantAnswer]
               ELSE [@ EXCEPT !.pc = "retrieve", !.vector_search_text = text]]
     \/ req' = [req EXCEPT ![r] = Raised(r, "ModelUnavailable")]
  /\ Called(r, "relevance_llm")
  /\ UNCHANGED <<pureVars, chat_collection, session_collection>>

\* The irrelevant branch: update_chat_message(_id, answer)
SaveIrrelevantAnswer(r) ==
  /\ req[r].pc = "irrelevant_save"
  /\ chat_collection' = update_chat_message(chat_collection, req[r].chat_id, req[r].answer)
  /\ req' = [req EXCEPT ![r].pc = "irrelevant_summary"]
  /\ Called(r, "update_chat_message")
  /\ UNCHANGED <<pureVars, session_collection>>

\* The irrelevant branch: call_llm(INCREMENTAL_SUMMARY_PROMPT...)
SummarizeIrrelevant(r) ==
  /\ req[r].pc = "irrelevant_summary"
  /\ \/ req' = [req EXCEPT ![r] =
          [@ EXCEPT !.pc = "irrelevant_update",
                    !.updated_summary = IncrementalSummary(req[r].session_summary, r)]]
     \/ req' = [req EXCEPT ![r] = Raised(r, "ModelUnavailable")]
  /\ Called(r, "incremental_summary_llm")
  /\ UNCHANGED <<pureVars, chat_collection, session_collection>>

\* The irrelevant branch: update_session_summary and return answer, _id
UpdateIrrelevantSummary(r) ==
  /\ req[r].pc = "irrelevant_update"
  /\ session_collection' =
       update_session_summary(session_collection, req[r].session_id, req[r].updated_summary)
  /\ req' = [req EXCEPT ![r].pc = "done"]
  /\ Called(r, "update_session_summary")
  /\ UNCHANGED <<pureVars, chat_collection>>

\* Step 3: get_similar_chunks; embed_text returns or raises.
GetSimilarChunks(r) ==
  /\ req[r].pc = "retrieve"
  /\ \/ req' = [req EXCEPT ![r].pc = "classify"]
     \/ req' = [req EXCEPT ![r] = Raised(r, "EmbeddingUnavailable")]
  /\ Called(r, "get_similar_chunks")
  /\ UNCHANGED <<pureVars, chat_collection, session_collection>>

\* Step 5: classify_intent, then router_map.get(intent).
ClassifyIntent(r) ==
  /\ req[r].pc = "classify"
  /\ \/ \E label \in LabelOutputs :
          LET intent == classify_intent(label)
          IN req' = [req EXCEPT ![r] =
               IF intent \notin AGENTS
               THEN [@ EXCEPT !.pc = "save", !.label = label, !.intent = intent,
                              !.answer = UnknownIntentAnswer]
               ELSE [@ EXCEPT !.pc = "agent", !.label = label, !.intent = intent]]
     \/ req' = [req EXCEPT ![r] = Raised(r, "ModelUnavailable")]
  /\ Called(r, "classify_llm")
  /\ UNCHANGED <<pureVars, chat_collection, session_collection>>

\* reply_text = handler(user_query, chunk_context, session_summary)
CallAgent(r) ==
  /\ req[r].pc = "agent"
  /\ \/ \E reply \in AgentReplies :
          req' = [req EXCEPT ![r] = [@ EXCEPT !.pc = "validate", !.reply_text = reply]]
     \/ req' = [req EXCEPT ![r] = Raised(r, "ModelUnavailable")]
  /\ Called(r, "agent_llm")
  /\ UNCHANGED <<pureVars, chat_collection, session_collection>>

\* The try / except ValueError around validate_llm_response.
ValidateReply(r) ==
  /\ req[r].pc = "validate"
  /\ LET res == ResolveAnswer(req[r].reply_text, req[r].intent)
     IN req' = [req EXCEPT ![r] =
          IF res.kind = "ok" THEN [@ EXCEPT !.pc = "save", !.answer = res.dump]
          ELSE Raised(r, res.kind)]
  /\ Called(r, "validate_llm_response")
  /\ UNCHANGED <<pureVars, chat_collection, session_collection>>

\* Step 6: update_chat_message(_id, answer)
SaveAnswer(r) ==
  /\ req[r].pc = "save"
  /\ chat_collection' = update_chat_message(chat_collection, req[r].chat_id, req[r].answer)
  /\ req' = [req EXCEPT ![r].pc = "first_message"]
  /\ Called(r, "update_chat_message")
  /\ UNCHANGED <<pureVars, session_collection>>

\* Step 7: first_message = is_first_message(session_id)
IsFirstMessage(r) ==
  /\ req[r].pc = "first_message"
  /\ req' = [req EXCEPT ![r] =
       [@ EXCEPT !.pc = "summary",
                 !.first_message = is_first_message(chat_collection, req[r].session_id)]]
  /\ Called(r, "is_first_message")
  /\ UNCHANGED <<pureVars, chat_collection, session_collection>>

\* updated_summary = call_llm(summary_prompt)
SummarizeTurn(r) ==
  /\ req[r].pc = "summary"
  /\ \/ req' = [req EXCEPT ![r] =
          [@ EXCEPT !.pc = "update",
                    !.updated_summary =
                      IF req[r].first_message THEN FirstMessageSummary(r)
                      ELSE IncrementalSummary(req[r].session_summary, r)]]
     \/ req' = [req EXCEPT ![r] = Raised(r, "ModelUnavailable")]
  /\ Called(r, IF req[r].first_message THEN "first_summary_llm" ELSE "incremental_summary_llm")
  /\ UNCHANGED <<pureVars, chat_collection, session_collection>>

\* update_session_summary(session_id, updated_summary) and return answer, _id
UpdateSummary(r) ==
  /\ req[r].pc = "update"
  /\ session_collection' =
       update_session_summary(session_collection, req[r].session_id, req[r].updated_summary)
  /\ req' = [req EXCEPT ![r].pc = "done"]
  /\ Called(r, "update_session_summary")
  /\ UNCHANGED <<pureVars, chat_collection>>

Next ==
  \E r \in Requests :
    \/ GetSessionSummary(r)
    \/ BuildVectorSearchInput(r)
    \/ SaveIrrelevantAnswer(r)
    \/ SummarizeIrrelevant(r)
    \/ UpdateIrrelevantSummary(r)
    \/ GetSimilarChunks(r)
    \/ ClassifyIntent(r)
    \/ CallAgent(r)
    \/ ValidateReply(r)
    \/ SaveAnswer(r)
    \/ IsFirstMessage(r)
    \/ SummarizeTurn(r)
    \/ UpdateSummary(r)

Spec == Init /\ [][Next]_vars

\* ================================================================= claims
Orderings(n) == InjectiveSeqs(1..n, n)

\* The decimal numeral a key carries: its decimal digits, read left to right.
DecimalPart(key) == SelectSeq(key, LAMBDA c : c \in DecimalDigits)

HasNumeral(key) == DecimalPart(key) # <<>>

OnlyDecimalDigits(key) == \A i \in 1..Len(key) : IsDigit(key[i]) => key[i] \in DecimalDigits

NumeralOrZero(key) == IntOf(DecimalPart(key))

\* out holds the values of entries in an order ascending by numeral.
AscendingByNumeral(entries, out) ==
  /\ Len(out) = Len(entries)
  /\ \E p \in Orderings(Len(entries)) :
       /\ \A i \in 1..Len(entries) : out[i] = entries[p[i]].val
       /\ \A i \in 1..(Len(entries) - 1) :
            NumeralOrZero(entries[p[i]].key) <= NumeralOrZero(entries[p[i + 1]].key)

\* out holds the values of entries in ascending order of numeral, a key
\* without one counting as 0, and equal numerals in insertion order.
StableByNumeralOrZero(entries, out) ==
  /\ Len(out) = Len(entries)
  /\ \E p \in Orderings(Len(entries)) :
       /\ \A i \in 1..Len(entries) : out[i] = entries[p[i]].val
       /\ \A i \in 1..(Len(entries) - 1) :
            \/ NumeralOrZero(entries[p[i]].key) < NumeralOrZero(entries[p[i + 1]].key)
            \/ /\ NumeralOrZero(entries[p[i]].key) = NumeralOrZero(entries[p[i + 1]].key)
               /\ p[i] < p[i + 1]

\* out holds the values of entries in ascending str order of their keys.
AscendingByKey(entries, out) ==
  /\ Len(out) = Len(entries)
  /\ \E p \in Orderings(Len(entries)) :
       /\ \A i \in 1..Len(entries) : out[i] = entries[p[i]].val
       /\ \A i \in 1..(Len(entries) - 1) : StrLess(entries[p[i]].key, entries[p[i + 1]].key)

ConvertedDict == converted # NotRun /\ step_data.k = "dict"

\* C8: when every key of a step mapping carries a numeral,
\* convert_step_dict_to_list returns the mapping's values in ascending order
\* of the numeric value of the keys' numerals (not in str order of the keys).
C8_NumericStepOrdering ==
  (/\ ConvertedDict
   /\ \A i \in 1..Len(step_data.d) :
        HasNumeral(step_data.d[i].key) /\ OnlyDecimalDigits(step_data.d[i].key))
    => /\ converted.k = "list"
       /\ AscendingByNumeral(step_data.d, converted.l)

\* {step2: B, step10: J, step1: A} has come out as [A, B, J]; str order of
\* the keys would give [A, J, B].
C8_Witness ==
  /\ step_data =
       Dict(<<Entry(<<"s", "2">>, "B"), Entry(<<"s", "1", "0">>, "J"), Entry(<<"s", "1">>, "A")>>)
  /\ converted = List(<<"A", "B", "J">>)

\* C9 as stated: when at least one key of a step mapping carries no numeral,
\* convert_step_dict_to_list returns the values in lexicographic key order.
C9_LexicographicWhenKeyHasNoNumeral ==
  (/\ ConvertedDict
   /\ \E i \in 1..Len(step_data.d) : FilterDigits(step_data.d[i].key) = <<>>)
    => /\ converted.k = "list"
       /\ AscendingByKey(step_data.d, converted.l)

\* C9 amended: a key that carries no numeral counts as 0 in the numeric
\* ordering (equal numerals keep the mapping's order); the values come out in
\* lexicographic key order only when int() rejects the digits of some key.
C9_KeyWithoutNumeralCountsAsZero ==
  /\ (/\ ConvertedDict
      /\ \E i \in 1..Len(step_data.d) : ~HasNumeral(step_data.d[i].key)
      /\ \A i \in 1..Len(step_data.d) : OnlyDecimalDigits(step_data.d[i].key))
       => /\ converted.k = "list"
          /\ StableByNumeralOrZero(step_data.d, converted.l)
  /\ (/\ ConvertedDict
      /\ \E i \in 1..Len(step_data.d) : ~OnlyDecimalDigits(step_data.d[i].key))
       => /\ converted.k = "list"
          /\ AscendingByKey(step_data.d, converted.l)

\* {z: A, s1: B} has come out as [A, B]: z counts as 0 and stays first,
\* although "s1" < "z" as text.
C9_Witness ==
  /\ step_data = Dict(<<Entry(<<"z">>, "A"), Entry(<<"s", "1">>, "B")>>)
  /\ converted = List(<<"A", "B">>)

\* ---- query_llm_with_context
Made(r, call) == \E i \in 1..Len(trace[r]) : trace[r][i] = call

CallCount(r, call) == Cardinality({i \in 1..Len(trace[r]) : trace[r][i] = call})

Ended(r) == req[r].pc \in {"done", "failed"}

PLACEHOLDER == Str(<<"Not", "specified">>)

RequiredFields(intent) ==
  {model_map[intent].str, model_map[intent].req[1], model_map[intent].req[2]}

\* The agent's reply of request r has been through validate_llm_response and
\* was rejected with the validation failure (ValueError).
ReplyFailedValidation(r) ==
  /\ req[r].intent \in AGENTS
  /\ Made(r, "validate_llm_response")
  /\ validate_llm_response(req[r].reply_text, req[r].intent).kind = "ValueError"

\* C1: a request classified fault_diagnosis or operational_guidance whose
\* raw agent output fails validation still completes, and the answer it
\* persists holds every required field of the intent's schema set to the
\* placeholder, plus the raw text under a debug field.
C1_FallbackGuarantee ==
  \A r \in Requests :
    ReplyFailedValidation(r) =>
      /\ req[r].raised \notin {"AttributeError", "TypeError"}
      /\ \A f \in RequiredFields(req[r].intent) :
           f \in DOMAIN req[r].answer /\ req[r].answer[f] = PLACEHOLDER
      /\ "raw" \in DOMAIN req[r].answer

ExternalCallFailed(r) == req[r].raised \in {"ModelUnavailable", "EmbeddingUnavailable"}

ResolvingCalls == {"relevance_llm", "classify_llm", "validate_llm_response"}

SummaryCalls ==
  {"is_first_message", "first_summary_llm", "incremental_summary_llm", "update_session_summary"}

\* C2, for the requests none of whose external calls failed: a request that
\* has ended has made exactly one update_chat_message call, after the call
\* that resolved its answer and before every call of the summary update.
C2_ExactlyOneChatWrite ==
  \A r \in Requests :
    (Ended(r) /\ ~ExternalCallFailed(r)) =>
      /\ CallCount(r, "update_chat_message") = 1
      /\ \E w \in 1..Len(trace[r]) :
           /\ trace[r][w] = "update_chat_message"
           /\ \E i \in 1..(w - 1) : trace[r][i] \in ResolvingCalls
           /\ \A i \in 1..Len(trace[r]) :
                /\ trace[r][i] \in ResolvingCalls => i < w
                /\ trace[r][i] \in SummaryCalls => w < i

ChatOf(r) == chat_collection[req[r].chat_id]

\* C3 as stated: after a completed request a chat record holding the answer
\* exists under the request's chat identifier, whether or not one existed
\* before the request.
C3_InsertOrUpdate ==
  \A r \in Requests :
    req[r].pc = "done" => ChatOf(r).exists /\ ChatOf(r).answer = req[r].answer

\* C3 amended: chat answers are persisted update-only. No step creates (or
\* removes) a chat record; after a completed request the record under the
\* request's chat identifier holds the answer if it exists, and when none
\* existed before the request none exists after it.
C3_UpdateOnly ==
  [][/\ \A c \in ChatIds : chat_collection'[c].exists = chat_collection[c].exists
     /\ \A r \in Requests :
          (req'[r].pc = "done" /\ chat_collection'[req'[r].chat_id].exists)
            => chat_collection'[req'[r].chat_id].answer = req'[r].answer]_vars

\* A request has completed on the answer path and no chat record exists
\* under its chat identifier: the update matched nothing and inserted nothing.
C3_Witness ==
  \E r \in Requests :
    /\ req[r].pc = "done"
    /\ Made(r, "validate_llm_response")
    /\ ~ChatOf(r).exists

ContainsCNC(query) == \E i \in 1..Len(query) : query[i] = "CNC"

\* The relevance call of request r has returned the sentinel: only then does
\* build_vector_search_input return None.
RelevanceReturnedSentinel(r) ==
  /\ Made(r, "relevance_llm")
  /\ req[r].vector_search_text = "None"
  /\ ~(req[r].pc = "failed" /\ trace[r][Len(trace[r])] = "relevance_llm")

\* C4: a query containing "CNC" is treated as relevant even when the
\* relevance call returns IRRELEVANT_QUERY: the request goes on to retrieval
\* and its answer is not the irrelevant-query response.
C4_RelevanceOverride ==
  \A r \in Requests :
    (ContainsCNC(req[r].user_query) /\ RelevanceReturnedSentinel(r))
      => /\ req[r].answer # IrrelevantAnswer
         /\ ~Made(r, "incremental_summary_llm") \/ Made(r, "get_similar_chunks")

\* ---- validate_llm_response
\* The response is the object itself, or exactly its JSON text.
PlainObject ==
  /\ validated # NotRun
  /\ response_data.py = "dict" \/ (response_data.lead = "" /\ response_data.trail = "")
  /\ response_data.body.kind = "json"
  /\ response_data.body.val.t = "object"

InputObject == response_data.body.val.o

IsBlank(text) == \A i \in 1..Len(text) : IsSpace(text[i])

\* C5: on the object {"message": "No relevant document found"},
\* validate_llm_response returns the NoResult record (the message field and
\* nothing else) whatever intent_type is, a known intent or not; on an object
\* whose message is any other string it raises the validation failure.
C5_NoResultShortcut ==
  (PlainObject /\ \E mv \in MessageVals : InputObject = [EmptyObject EXCEPT !["message"] = mv])
    => /\ InputObject["message"] = Str(NO_RESULT_MESSAGE)
            => /\ validated.kind = "ok"
               /\ validated.why = "no_result"
               /\ validated.dump = [f \in {"message"} |-> Str(NO_RESULT_MESSAGE)]
       /\ (InputObject["message"].k = "str" /\ InputObject["message"].s # NO_RESULT_MESSAGE)
            => /\ validated.kind = "ValueError"
               /\ validated.why = "validation"

\* The no-result object has been validated under an intent that is no known
\* variant, and NoResult came back.
C5_Witness ==
  /\ PlainObject
  /\ InputObject = [EmptyObject EXCEPT !["message"] = Str(NO_RESULT_MESSAGE)]
  /\ Lower(intent_type) \notin DOMAIN model_map
  /\ validated.kind = "ok"
  /\ DOMAIN validated.dump = {"message"}

\* C6: for every raw text and every intent, validate_llm_response returns a
\* validated record or raises ValueError; no other failure escapes it.
C6_ValidateIsTotal ==
  (validated # NotRun /\ response_data.py = "str") => validated.kind \in {"ok", "ValueError"}

\* C7: for a known intent and an object of that intent's shape (no message
\* key, which C5's shortcut would take first; fields of the schema's types),
\* validation fails naming the field when the required string is missing,
\* empty or whitespace-only, or when a required list-or-map is missing or
\* empty; it succeeds when the required string is non-blank and both required
\* collections are non-empty.
KnownIntentObject ==
  /\ PlainObject
  /\ Lower(intent_type) \in DOMAIN model_map
  /\ InputObject["message"].k = "absent"

IntentModel == model_map[Lower(intent_type)]

MissingOrBlank(v) == v.k = "absent" \/ (v.k = "str" /\ IsBlank(v.s))

MissingOrEmpty(v) ==
  v.k = "absent" \/ (v.k = "list" /\ Len(v.l) = 0) \/ (v.k = "dict" /\ Len(v.d) = 0)

NonEmptyCollection(v) == (v.k = "list" /\ Len(v.l) > 0) \/ (v.k = "dict" /\ Len(v.d) > 0)

C7_RequiredFieldValidation ==
  KnownIntentObject =>
    LET m == IntentModel
        o == InputObject
    IN /\ MissingOrBlank(o[m.str])
            => validated.kind = "ValueError" /\ m.str \in validated.fields
       /\ \A i \in 1..2 :
            MissingOrEmpty(o[m.req[i]])
              => validated.kind = "ValueError" /\ m.req[i] \in validated.fields
       /\ (/\ o[m.str].k = "str" /\ ~IsBlank(o[m.str].s)
           /\ NonEmptyCollection(o[m.req[1]]) /\ NonEmptyCollection(o[m.req[2]])
           /\ o[m.opt].k \in {"absent", "null", "list", "dict"})
            => validated.kind = "ok" /\ validated.why = Lower(intent_type)

\* A whitespace-only issue_identified, next to non-empty causes and actions,
\* has been rejected with the error naming issue_identified.
C7_Witness ==
  /\ KnownIntentObject
  /\ Lower(intent_type) = "fault_diagnosis"
  /\ InputObject["issue_identified"] = Str(<<" ", "\n">>)
  /\ NonEmptyCollection(InputObject["likely_causes"])
  /\ NonEmptyCollection(InputObject["recommended_actions"])
  /\ validated.kind = "ValueError"
  /\ validated.fields = {"issue_identified"}

\* C10: in every record validate_llm_response returns for a known intent, no
\* list-valued field, required or optional, holds an empty string.
C10_NoEmptyStringInLists ==
  (validated # NotRun /\ validated.kind = "ok" /\ validated.why \in DOMAIN model_map)
    => \A f \in DOMAIN validated.dump :
         validated.dump[f].k = "list"
           => \A i \in 1..Len(validated.dump[f].l) : validated.dump[f].l[i] # ""

\* C11: in every record validate_llm_response returns for a known intent,
\* each step-collection field, required or optional, is an ordered sequence
\* or not set; an optional field that arrived as an empty list or an empty
\* mapping causes no validation failure and is returned as not set.
C11_PostNormalizationShape ==
  KnownIntentObject =>
    LET m == IntentModel
        arrivedEmpty == InputObject[m.opt] \in {List(<<>>), Dict(<<>>)}
    IN /\ validated.kind = "ok"
            => /\ \A i \in 1..2 : validated.dump[m.req[i]].k = "list"
               /\ validated.dump[m.opt].k \in {"list", "null"}
               /\ arrivedEmpty => validated.dump[m.opt] = Null
       /\ arrivedEmpty => m.opt \notin validated.fields

\* ---- get_similar_chunks
\* The documents of the scope that hold both a text and an embedding.
Usable ==
  SelectSeq(Find(embedding_collection, machine_id),
            LAMBDA doc : doc.text # NoField /\ doc.embedding # NoField)

Min(a, b) == IF a < b THEN a ELSE b

\* Document i comes before document j: a higher similarity, or the same
\* similarity and an earlier place in retrieval order.
RanksBefore(docs, i, j) ==
  \/ cosine_similarity(docs[i].embedding) > cosine_similarity(docs[j].embedding)
  \/ /\ cosine_similarity(docs[i].embedding) = cosine_similarity(docs[j].embedding)
     /\ i < j

\* out is the first Len(out) documents of docs by RanksBefore, each as
\* (score, text, embedding).
TopByDescendingSimilarity(docs, out) ==
  \E p \in [1..Len(out) -> 1..Len(docs)] :
    /\ \A i \in 1..Len(out) :
         out[i] = <<cosine_similarity(docs[p[i]].embedding), docs[p[i]].text, docs[p[i]].embedding>>
    /\ \A i \in 1..(Len(out) - 1) : RanksBefore(docs, p[i], p[i + 1])
    /\ \A j \in 1..Len(docs) :
         (\A i \in 1..Len(out) : p[i] # j) => \A i \in 1..Len(out) : RanksBefore(docs, p[i], j)

\* C12: once the query is embedded, get_similar_chunks returns (never
\* fails), for a scope with n usable documents, exactly min(top_k, n)
\* chunks: the usable documents of highest similarity, in descending order of
\* similarity, equal scores in retrieval order. Documents without text or
\* embedding are skipped; a scope without documents gives the empty sequence.
C12_TopKByDescendingSimilarity ==
  (chunks # NotRun /\ chunks.kind # "EmbeddingUnavailable")
    => /\ chunks.kind = "ok"
       /\ Len(chunks.out) = Min(top_k, Len(Usable))
       /\ TopByDescendingSimilarity(Usable, chunks.out)
       /\ Find(embedding_collection, machine_id) = <<>> => chunks.out = <<>>

\* Three usable documents of the scope, at similarities 0.7, 1.0 and 0.7:
\* with top_k = 2 the second has come back first, then the first (the earlier
\* of the two equal scores), and the third was cut off.
C12_Witness ==
  /\ chunks # NotRun /\ chunks.kind = "ok"
  /\ top_k = 2
  /\ Len(Usable) = 3
  /\ Usable[1].embedding = "e_left"
  /\ Usable[2].embedding = "e_query"
  /\ Usable[3].embedding = "e_right"
  /\ chunks.out = <<<<10, Usable[2].text, "e_query">>, <<7, Usable[1].text, "e_left">>>>

\* ---- the session summary
SessionOf(r) == session_collection[req[r].session_id]

\* Request r is about to call update_session_summary.
AtSummaryWrite(r) == req[r].pc \in {"update", "irrelevant_update"}

\* C13: summary writes are update-only. No step creates (or removes) a
\* session; update_session_summary on a session identifier that does not
\* exist leaves the sessions as they were, and the request that issued it
\* completes without raising and returns the answer it handed to
\* update_chat_message before (the chat record, where there is one, holds it).
C13_SummaryUpdateOnly ==
  [][/\ \A s \in SessionIds : session_collection'[s].exists = session_collection[s].exists
     /\ \A r \in Requests :
          (AtSummaryWrite(r) /\ ~SessionOf(r).exists /\ req'[r] # req[r])
            => /\ session_collection' = session_collection
               /\ req'[r].pc = "done" /\ req'[r].raised = ""
               /\ req'[r].answer = req[r].answer /\ req'[r].answer # NoAnswer
               /\ Made(r, "update_chat_message")
               /\ ChatOf(r).exists => ChatOf(r).answer = req'[r].answer]_vars

\* A request has called update_session_summary for a session that does not
\* exist, and has completed with its answer stored in its chat record.
C13_Witness ==
  \E r \in Requests :
    /\ req[r].pc = "done"
    /\ Made(r, "update_session_summary")
    /\ ~SessionOf(r).exists
    /\ ChatOf(r).exists /\ ChatOf(r).answer = req[r].answer
    /\ req[r].answer # NoAnswer

\* ---- the irrelevant-query path
IsPrefix(a, b) == Len(a) <= Len(b) /\ \A i \in 1..Len(a) : a[i] = b[i]

\* The relevance call of request r has returned, and with no search text
\* (the sentinel, or nothing at all).
ReportedIrrelevant(r) ==
  /\ Made(r, "relevance_llm")
  /\ req[r].vector_search_text \in {"None", ""}
  /\ ~(req[r].pc = "failed" /\ trace[r][Len(trace[r])] = "relevance_llm")

IrrelevantPathCalls ==
  << "get_session_summary", "relevance_llm", "update_chat_message",
     "incremental_summary_llm", "update_session_summary" >>

\* C14: when the relevance step reports irrelevance, the request's answer is
\* the fixed apologetic response; it hands it to update_chat_message, then
\* makes the incremental-summary call (never the first-message one, and
\* without asking is_first_message), then update_session_summary, and
\* returns. It makes no retrieval, classification, agent or validation call;
\* it ends otherwise only when the summary call itself fails.
C14_IrrelevantPath ==
  \A r \in Requests :
    ReportedIrrelevant(r) =>
      /\ req[r].answer = IrrelevantAnswer
      /\ IsPrefix(trace[r], IrrelevantPathCalls)
      /\ \A call \in {"get_similar_chunks", "classify_llm", "agent_llm",
                      "validate_llm_response", "is_first_message", "first_summary_llm"} :
           ~Made(r, call)
      /\ req[r].pc = "done" => trace[r] = IrrelevantPathCalls
      /\ req[r].pc = "failed"
           => /\ req[r].raised = "ModelUnavailable"
              /\ trace[r][Len(trace[r])] = "incremental_summary_llm"
      /\ (Made(r, "update_chat_message") /\ ChatOf(r).exists) => ChatOf(r).answer = IrrelevantAnswer

\* A request on the first turn of its session (is_first_message would say
\* yes) has completed on the irrelevant path: the apologetic response is
\* stored and the summary was made with the incremental prompt.
C14_Witness ==
  \E r \in Requests :
    /\ ReportedIrrelevant(r)
    /\ req[r].pc = "done"
    /\ is_first_message(chat_collection, req[r].session_id)
    /\ ChatOf(r).exists /\ ChatOf(r).answer = IrrelevantAnswer
    /\ Made(r, "incremental_summary_llm")
    /\ SessionOf(r).exists /\ r \in SessionOf(r).summarization

\* ---- the unknown-intent path
\* The content is one known label, in any case, with nothing but whitespace
\* around it.
KnownLabel(content) ==
  \E i \in 1..Len(content) :
    /\ Lower(content[i]) \in {"fault_diagnosis", "operational_guidance"}
    /\ \A j \in 1..Len(content) : j # i => IsSpace(content[j])

\* The classification call of request r has returned.
Classified(r) == req[r].intent # ""

UnknownIntentCalls(summary_call) ==
  << "get_session_summary", "relevance_llm", "get_similar_chunks", "classify_llm",
     "update_chat_message", "is_first_message", summary_call, "update_session_summary" >>

\* C15: a classification output maps to a known intent exactly when it is one
\* of the known labels after lower-casing and trimming, and to unknown
\* otherwise. For an unknown intent the answer is the terminal error
\* payload; the request calls no agent and not the validator, hands the
\* payload to update_chat_message once and then updates the session summary;
\* it ends otherwise only when the summary call itself fails.
C15_UnknownIntentPath ==
  \A r \in Requests :
    Classified(r) =>
      /\ req[r].intent = "unknown" <=> ~KnownLabel(req[r].label)
      /\ KnownLabel(req[r].label) => <<req[r].intent>> = Strip(LowerText(req[r].label))
      /\ req[r].intent = "unknown" =>
           /\ req[r].answer = UnknownIntentAnswer
           /\ ~Made(r, "agent_llm") /\ ~Made(r, "validate_llm_response")
           /\ \E call \in {"first_summary_llm", "incremental_summary_llm"} :
                /\ IsPrefix(trace[r], UnknownIntentCalls(call))
                /\ req[r].pc = "done" => trace[r] = UnknownIntentCalls(call)
           /\ req[r].pc = "failed"
                => /\ req[r].raised = "ModelUnavailable"
                   /\ trace[r][Len(trace[r])] \in {"first_summary_llm", "incremental_summary_llm"}
           /\ (Made(r, "update_chat_message") /\ ChatOf(r).exists)
                => ChatOf(r).answer = UnknownIntentAnswer

\* The classification call has named both labels at once; the request has
\* completed with the error payload stored in its chat record and its turn in
\* the session summary.
C15_Witness ==
  \E r \in Requests :
    /\ req[r].label = <<"fault_diagnosis", " ", "operational_guidance">>
    /\ req[r].intent = "unknown"
    /\ req[r].pc = "done"
    /\ ChatOf(r).exists /\ ChatOf(r).answer = UnknownIntentAnswer
    /\ SessionOf(r).exists /\ r \in SessionOf(r).summarization

\* ---- concurrent turns of one session
Other(r) == CHOOSE q \in Requests : q # r

\* Both requests are turns of the same existing session, each has written
\* its summary, and neither had the other's turn in the summary it read:
\* both read before either wrote.
BothReadBeforeEitherWrote ==
  /\ req["r1"].session_id = req["r2"].session_id
  /\ SessionOf("r1").exists
  /\ \A r \in Requests :
       /\ Made(r, "update_session_summary")
       /\ Other(r) \notin req[r].session_summary

\* C16: when two requests of the same existing session both read the summary
\* before either writes it, the summary stored after both have written is
\* the one a single request derived, and holds only that request's turn: the
\* other turn is lost. Update-only writing does not prevent it.
C16_LostUpdate ==
  BothReadBeforeEitherWrote =>
    \E r \in Requests :
      /\ SessionOf(r).summarization = req[r].updated_summary
      /\ r \in SessionOf(r).summarization
      /\ Other(r) \notin SessionOf(r).summarization

\* Both requests have completed on session s1; each read the prior summary
\* {t0} and derived its own from it, and the stored summary is the prior one
\* plus r2's turn, without r1's.
C16_Witness ==
  /\ BothReadBeforeEitherWrote
  /\ \A r \in Requests :
       /\ req[r].pc = "done"
       /\ req[r].session_id = "s1"
       /\ req[r].session_summary = {"t0"}
       /\ req[r].updated_summary = {"t0", r}
  /\ session_collection["s1"].summarization = {"t0", "r2"}

====
